---- MODULE Spec2Model ----
(***************************************************************************)
(* Weather CLI (02_API.py): read a city name, issue one HTTP GET against   *)
(* the weather endpoint, map the response to a result dict, print it.     *)
(*                                                                         *)
(* Python values are tagged records: None, numbers, strings, lists and     *)
(* dicts.  A dict is a function whose DOMAIN is the set of keys present.   *)
(* Glyphs outside ASCII in the printed literals are left out of the        *)
(* strings; everything else of a printed line is kept.                     *)
(***************************************************************************)
EXTENDS Integers, Sequences, FiniteSets, TLC

VARIABLES pc, stdin, city, gets, exc, response, data, weather_data, fault, output

vars == <<pc, stdin, city, gets, exc, response, data, weather_data, fault, output>>

---------------------------------------------------------------------------
(* Bounds *)

MaxInputLen == 3

MaxWeatherLen == 2

---------------------------------------------------------------------------
(* Python / JSON values *)

None == [t |-> "null"]

Num(n) == [t |-> "num", n |-> n]

Str(s) == [t |-> "str", s |-> s]

List(l) == [t |-> "list", l |-> l]

Dict(f) == [t |-> "dict", d |-> f]

NotJson == [t |-> "notjson"]

EmptyDict == Dict([k \in {} |-> None])

IsDict(v) == v.t = "dict"

\* Marks a key left out of a payload while the payloads are enumerated.
Absent == [t |-> "absent"]

Opt(S) == S \cup {Absent}

\* The dict holding the keys of the choice c that were not left out.
Payload(c) == Dict([k \in {j \in DOMAIN c : c[j] # Absent} |-> c[k]])

\* All sequences over S of length at most n.
SeqUpTo(S, n) == UNION {[1..m -> S] : m \in 0..n}

Unbound == [t |-> "unbound"]

\* dict.get(key, default)
Get(dict, key, default) == IF key \in DOMAIN dict.d THEN dict.d[key] ELSE default

\* Truth value of a Python object, as tested by `if x` / `not x`.
Truthy(v) ==
  CASE v.t = "null" -> FALSE
    [] v.t = "num"  -> v.n # 0
    [] v.t = "str"  -> v.s # ""
    [] v.t = "list" -> v.l # <<>>
    [] v.t = "dict" -> DOMAIN v.d # {}

\* str(v) as an f-string or print renders a scalar.
PyStr(v) ==
  CASE v.t = "null" -> "None"
    [] v.t = "num"  -> ToString(v.n)
    [] v.t = "str"  -> v.s

---------------------------------------------------------------------------
(* Console input *)

Whitespace == {" ", "\t"}

InputChars == {" ", "a"}

Lines == SeqUpTo(InputChars, MaxInputLen)

RECURSIVE LStrip(_)
LStrip(s) == IF s # <<>> /\ Head(s) \in Whitespace THEN LStrip(Tail(s)) ELSE s

RECURSIVE RStrip(_)
RStrip(s) ==
  IF s # <<>> /\ s[Len(s)] \in Whitespace THEN RStrip(SubSeq(s, 1, Len(s) - 1)) ELSE s

RECURSIVE Join(_)
Join(s) == IF s = <<>> THEN "" ELSE Head(s) \o Join(Tail(s))

\* Variant of Strip that forgets to trim.
NoStrip(s) == Join(s)

\* str.strip(): drop leading and trailing whitespace, keep what is between.
Strip(s) == Join(RStrip(LStrip(s)))

---------------------------------------------------------------------------
(* HTTP outcomes *)

HTTP_OK == 200

HTTP_UNAUTHORIZED == 401

HTTP_NOT_FOUND == 404

StatusCodes == {HTTP_OK, HTTP_UNAUTHORIZED, HTTP_NOT_FOUND, 500}

TransportErrors == {"Connection refused", "Read timed out"}

NoException == "none"

MessageValues == {Str("city not found"), Num(7), None}

ErrorBodies == {Payload(c) : c \in [message : Opt(MessageValues)]}

MainValues ==
  {None} \cup {Payload(c) : c \in [temp : Opt({Num(15)}), pressure : Opt({Num(1012)}),
                                   humidity : Opt({Num(70)})]}

WindValues == {None} \cup {Payload(c) : c \in [speed : Opt({Num(3)})]}

WeatherEntries ==
  {EmptyDict, Dict([description |-> Str("clear sky")]), Dict([description |-> Str("rain")]),
   Str("mist")}

WeatherValues ==
  {List(l) : l \in SeqUpTo(WeatherEntries, MaxWeatherLen)}
    \cup {None, EmptyDict, Dict([description |-> Str("rain")]), Str(""), Str("rain"),
          Num(0), Num(5)}

NameValues == {Str("London"), None}

WeatherBodies ==
  {Payload(c) : c \in [name : Opt(NameValues), main : Opt(MainValues),
                       weather : Opt(WeatherValues), wind : Opt(WindValues)]}

\* Bodies that parse as JSON but are not an object.
ScalarBodies == {None, Num(0), Str("Not Found"), List(<<>>)}

SampleReport ==
  Dict([name |-> Str("London"),
        main |-> Dict([temp |-> Num(15), pressure |-> Num(1012), humidity |-> Num(70)]),
        weather |-> List(<<Dict([description |-> Str("clear sky")])>>),
        wind |-> Dict([speed |-> Num(3)])])

CommonBodies == {NotJson, SampleReport} \cup ScalarBodies \cup ErrorBodies

Responses ==
  {[status_code |-> c, body |-> b] : c \in StatusCodes, b \in CommonBodies}
    \cup {[status_code |-> HTTP_OK, body |-> b] : b \in WeatherBodies}

NoResponse == [status_code |-> 0, body |-> NotJson]

---------------------------------------------------------------------------
(* get_weather *)

\* How an evaluation ends: with a value, or with an exception.
Return(v) == [kind |-> "return", value |-> v]

Raise(e) == [kind |-> "raise", exc |-> e]

ErrorDict(msg) == Dict([error |-> Str(msg)])

\* response.json()
Json(r) == IF r.body = NotJson THEN Raise("ValueError") ELSE Return(r.body)

\* The try/except around response.json() and error_data.get on a non-200.
ServerMessage(r) ==
  LET error_data == Json(r) IN
    IF error_data.kind = "raise" THEN Return(Str("Invalid response from server"))
    ELSE IF ~IsDict(error_data.value) THEN Raise("AttributeError")
    ELSE Return(Get(error_data.value, "message", Str("Unknown error")))

\* The branch taken when response.status_code != 200.
StatusFailure(r, city_name) ==
  LET message == ServerMessage(r) IN
    IF message.kind = "raise" THEN message
    ELSE IF r.status_code = HTTP_UNAUTHORIZED
      THEN Return(ErrorDict("Invalid API key: " \o PyStr(message.value)))
    ELSE IF r.status_code = HTTP_NOT_FOUND
      THEN Return(ErrorDict("City not found: " \o city_name))
    ELSE Return(ErrorDict("API request failed with status " \o ToString(r.status_code)
                            \o ": " \o PyStr(message.value)))

\* weather_list[0].get("description") if weather_list else None
Description(weather_list) ==
  IF ~Truthy(weather_list) THEN Return(None)
  ELSE CASE weather_list.t = "list" ->
              IF IsDict(weather_list.l[1])
                THEN Return(Get(weather_list.l[1], "description", None))
                ELSE Raise("AttributeError")
         [] weather_list.t = "str"  -> Raise("AttributeError")
         [] weather_list.t = "dict" -> Raise("KeyError")
         [] weather_list.t = "num"  -> Raise("TypeError")

\* Steps 6 and 7: read the fields of the decoded payload and build the result.
ExtractFields(payload, city_name) ==
  IF ~IsDict(payload) THEN Raise("AttributeError")
  ELSE LET main == Get(payload, "main", EmptyDict)
           weather_list == Get(payload, "weather", List(<<>>))
           wind == Get(payload, "wind", EmptyDict)
       IN IF ~IsDict(main) THEN Raise("AttributeError")
          ELSE LET description == Description(weather_list) IN
            IF description.kind = "raise" THEN description
            ELSE IF ~IsDict(wind) THEN Raise("AttributeError")
            ELSE Return(Dict([city |-> Get(payload, "name", Str(city_name)),
                              temperature |-> Get(main, "temp", None),
                              pressure |-> Get(main, "pressure", None),
                              humidity |-> Get(main, "humidity", None),
                              description |-> description.value,
                              wind_speed |-> Get(wind, "speed", None)]))

---------------------------------------------------------------------------
(* print_weather_report *)

ValidationMessage == "Please enter a valid city name."

ReportLines(result) ==
  IF "error" \in DOMAIN result.d
    THEN <<"\n Error: " \o PyStr(result.d["error"])>>
    ELSE <<"\n Weather Report for: " \o PyStr(result.d["city"]),
           "--------------------------------------",
           " Temperature : " \o PyStr(result.d["temperature"]) \o " C",
           " Humidity    : " \o PyStr(result.d["humidity"]) \o " %",
           " Pressure    : " \o PyStr(result.d["pressure"]) \o " hPa",
           " Wind Speed  : " \o PyStr(result.d["wind_speed"]) \o " m/s",
           " Condition   : " \o PyStr(result.d["description"])>>

---------------------------------------------------------------------------
(* The program *)

Init ==
  /\ pc = "input"
  /\ stdin \in Lines
  /\ city = ""
  /\ gets = 0
  /\ exc = NoException
  /\ response = NoResponse
  /\ data = Unbound
  /\ weather_data = Unbound
  /\ fault = NoException
  /\ output = <<>>

\* city = input("Enter city name: ").strip()
ReadInput ==
  /\ pc = "input"
  /\ city' = Strip(stdin)
  /\ pc' = "check"
  /\ UNCHANGED <<stdin, gets, exc, response, data, weather_data, fault, output>>

\* if not city: print("Please enter a valid city name.")
RejectBlank ==
  /\ pc = "check"
  /\ city = ""
  /\ output' = Append(output, ValidationMessage)
  /\ pc' = "done"
  /\ UNCHANGED <<stdin, city, gets, exc, response, data, weather_data, fault>>

\* else: get_weather(city) is entered and requests.get is called once; it
\* either raises a RequestException or hands back a response.
SendRequest ==
  /\ pc = "check"
  /\ city # ""
  /\ gets' = gets + 1
  /\ \/ \E e \in TransportErrors :
          /\ exc' = e
          /\ pc' = "except"
          /\ UNCHANGED response
     \/ \E r \in Responses :
          /\ response' = r
          /\ pc' = "status"
          /\ UNCHANGED exc
  /\ UNCHANGED <<stdin, city, data, weather_data, fault, output>>

\* Variant of NetworkError that swallows the exception and carries on to
\* the status check.
NetworkErrorFallsThrough ==
  /\ pc = "except"
  /\ exc' = NoException
  /\ pc' = "status"
  /\ UNCHANGED <<stdin, city, gets, response, data, weather_data, fault, output>>

\* except requests.exceptions.RequestException as e: return the error dict.
NetworkError ==
  /\ pc = "except"
  /\ weather_data' = ErrorDict("Network error: " \o exc)
  /\ exc' = NoException
  /\ pc' = "report"
  /\ UNCHANGED <<stdin, city, gets, response, data, fault, output>>

\* An evaluation inside get_weather ends the call: its value becomes
\* weather_data, its exception leaves the program with a traceback.
Finish(outcome) ==
  /\ response' = NoResponse
  /\ data' = Unbound
  /\ IF outcome.kind = "raise"
       THEN /\ fault' = outcome.exc
            /\ pc' = "crashed"
            /\ UNCHANGED weather_data
       ELSE /\ weather_data' = outcome.value
            /\ pc' = "report"
            /\ UNCHANGED fault

\* if response.status_code != 200: ... return {"error": ...}
ErrorStatus ==
  /\ pc = "status"
  /\ response.status_code # HTTP_OK
  /\ Finish(StatusFailure(response, city))
  /\ UNCHANGED <<stdin, city, gets, exc, output>>

\* Variant of DecodeBody that reports an undecodable 200 body with the
\* non-200 fallback literal.
DecodeBodyReusesFallback ==
  /\ pc = "status"
  /\ response.status_code = HTTP_OK
  /\ LET parsed == Json(response) IN
       IF parsed.kind = "raise"
         THEN /\ Finish(Return(ErrorDict("Invalid response from server")))
         ELSE /\ data' = parsed.value
              /\ pc' = "extract"
              /\ UNCHANGED <<response, weather_data, fault>>
  /\ UNCHANGED <<stdin, city, gets, exc, output>>

\* try: data = response.json() / except ValueError: return the error dict.
DecodeBody ==
  /\ pc = "status"
  /\ response.status_code = HTTP_OK
  /\ LET parsed == Json(response) IN
       IF parsed.kind = "raise"
         THEN /\ Finish(Return(ErrorDict("Failed to decode JSON response")))
         ELSE /\ data' = parsed.value
              /\ pc' = "extract"
              /\ UNCHANGED <<response, weather_data, fault>>
  /\ UNCHANGED <<stdin, city, gets, exc, output>>

\* Steps 6 and 7 of get_weather on the decoded payload.
BuildResult ==
  /\ pc = "extract"
  /\ Finish(ExtractFields(data, city))
  /\ UNCHANGED <<stdin, city, gets, exc, output>>

\* print_weather_report(weather_data), after which the program ends.
PrintReport ==
  /\ pc = "report"
  /\ output' = output \o ReportLines(weather_data)
  /\ pc' = "done"
  /\ UNCHANGED <<stdin, city, gets, exc, response, data, weather_data, fault>>

Next ==
  \/ ReadInput
  \/ RejectBlank
  \/ SendRequest
  \/ NetworkError
  \/ ErrorStatus
  \/ DecodeBody
  \/ BuildResult
  \/ PrintReport

Spec == Init /\ [][Next]_vars


---------------------------------------------------------------------------
(* Properties *)

SuccessKeys == {"city", "temperature", "pressure", "humidity", "description", "wind_speed"}

IsFailure(r) == r.t = "dict" /\ DOMAIN r.d = {"error"}

IsSuccess(r) == r.t = "dict" /\ DOMAIN r.d = SuccessKeys

\* The call of get_weather was made and is over.
CallOver == gets >= 1 /\ pc \in {"report", "done", "crashed"}

Blank(line) == \A i \in 1..Len(line) : line[i] \in Whitespace

\* The server message as the error taxonomy describes it: the payload's
\* `message` when the body decodes, one of the two fallback literals otherwise.
DocumentedServerMessage(body) ==
  IF body = NotJson THEN "Invalid response from server"
  ELSE IF IsDict(body) /\ "message" \in DOMAIN body.d THEN PyStr(body.d["message"])
  ELSE "Unknown error"

\* The value a payload supplies under a key, None when it supplies none.
Supplied(container, key) ==
  IF IsDict(container) /\ key \in DOMAIN container.d THEN container.d[key] ELSE None

\* The Success the extraction rules describe for a decoded payload.
DocumentedSuccess(payload, city_name) ==
  LET main == Supplied(payload, "main")
      weather_list == Supplied(payload, "weather")
      wind == Supplied(payload, "wind")
  IN Dict([city |-> IF IsDict(payload) /\ "name" \in DOMAIN payload.d
                      THEN payload.d["name"] ELSE Str(city_name),
           temperature |-> Supplied(main, "temp"),
           pressure |-> Supplied(main, "pressure"),
           humidity |-> Supplied(main, "humidity"),
           description |-> IF weather_list.t = "list" /\ weather_list.l # <<>>
                             THEN Supplied(weather_list.l[1], "description") ELSE None,
           wind_speed |-> Supplied(wind, "speed")])

\* C1: once the call of get_weather is over, its result is exactly one of
\* the two variants: an error dict or a dict of the six weather fields.
C1_ExactlyOneVariant ==
  CallOver => (IsFailure(weather_data) /\ ~IsSuccess(weather_data))
                \/ (IsSuccess(weather_data) /\ ~IsFailure(weather_data))

\* C2: no response status and no response body makes get_weather leave
\* with an unhandled exception.
C2_NoUnhandledFault == fault = NoException /\ pc # "crashed"

\* C3: a line that is blank after trimming ends in the validation message
\* and no GET is ever issued for it.
C3_BlankInputNoRequest ==
  (pc # "input" /\ (Blank(stdin) \/ city = ""))
    => /\ city = ""
       /\ gets = 0
       /\ weather_data = Unbound
       /\ pc \in {"check", "done"}
       /\ pc = "done" => output = <<ValidationMessage>>

C3_Witness ==
  /\ pc = "done"
  /\ Len(stdin) >= 2
  /\ Blank(stdin)
  /\ gets = 0
  /\ output = <<ValidationMessage>>

\* C4: a 404 response, whatever its body, makes get_weather return the
\* error dict "City not found: <city>".
C4_NotFoundMessage ==
  [][(pc = "status" /\ response.status_code = HTTP_NOT_FOUND)
       => /\ pc' = "report"
          /\ weather_data' = ErrorDict("City not found: " \o city)]_vars

\* C5: a 401 response, whatever its body, makes get_weather return the
\* error dict "Invalid API key: <server message>".
C5_InvalidKeyMessage ==
  [][(pc = "status" /\ response.status_code = HTTP_UNAUTHORIZED)
       => /\ pc' = "report"
          /\ weather_data'
               = ErrorDict("Invalid API key: " \o DocumentedServerMessage(response.body))]_vars

\* C6: a transport failure of the GET ends the call with the error dict
\* "Network error: <exception>", and a lookup never issues a second GET.
C6_TransportFailureTerminal ==
  [][/\ pc = "except" => /\ weather_data' = ErrorDict("Network error: " \o exc)
                         /\ pc' = "report"
     /\ gets' <= 1
     /\ gets >= 1 => gets' = gets]_vars

C6_Witness ==
  /\ pc = "done"
  /\ gets = 1
  /\ weather_data = ErrorDict("Network error: Read timed out")
  /\ output = <<"\n Error: Network error: Read timed out">>

\* C7: a 200 response whose body decodes yields the Success holding the
\* payload's values where supplied, None elsewhere, and the input city
\* name when the payload has no name.
C7_ExtractedFields ==
  [][pc = "extract"
       => /\ pc' = "report"
          /\ weather_data' = DocumentedSuccess(data, city)]_vars

\* C8: any other non-200 status yields the error dict "API request failed
\* with status <code>: <server message>".
C8_OtherStatusMessage ==
  [][(pc = "status" /\ response.status_code \notin {HTTP_OK, HTTP_UNAUTHORIZED, HTTP_NOT_FOUND})
       => /\ pc' = "report"
          /\ weather_data'
               = ErrorDict("API request failed with status " \o ToString(response.status_code)
                             \o ": " \o DocumentedServerMessage(response.body))]_vars

\* C9: a 200 response whose body does not decode yields the error dict
\* "Failed to decode JSON response", never a Success and never one of the
\* non-200 fallback literals.
C9_DecodeFailure ==
  [][(pc = "status" /\ response.status_code = HTTP_OK /\ response.body = NotJson)
       => /\ pc' = "report"
          /\ fault' = NoException
          /\ weather_data' = ErrorDict("Failed to decode JSON response")]_vars

C9_Witness ==
  /\ pc = "report"
  /\ gets = 1
  /\ weather_data = ErrorDict("Failed to decode JSON response")

\* C10: a run that has ended has ended normally, with exactly one output:
\* the validation message, the error line of a Failure, or the seven
\* report lines of a Success.
C10_NormalExitOneOutput ==
  pc \in {"done", "crashed"}
    => /\ pc = "done"
       /\ fault = NoException
       /\ \/ gets = 0 /\ output = <<ValidationMessage>>
          \/ /\ gets = 1
             /\ IsFailure(weather_data)
             /\ output = <<"\n Error: " \o weather_data.d["error"].s>>
          \/ /\ gets = 1
             /\ IsSuccess(weather_data)
             /\ Len(output) = 7
             /\ output[1] = "\n Weather Report for: " \o PyStr(weather_data.d["city"])

====
